---- MODULE Spec2Model ----
(***************************************************************************)
(* Model of class MTVcost (src/cost/mtv_cost.py): the QUBO formulator      *)
(* to_quadratic_program, the decoder interpret and the ranking done by     *)
(* plot_distribution.                                                      *)
(*                                                                         *)
(* A Python str is a sequence of one-character strings; a list is a        *)
(* sequence; a dict is a function whose DOMAIN is its key set.  Sites are  *)
(* the integers 0..n-1 as in the source, sequences are 1-based as in TLA+. *)
(***************************************************************************)
EXTENDS Integers, Sequences, FiniteSets, TLC

VARIABLES G, required_counts, linkers, lengths, E,
          method, raised, nvars, op, result_x, interpreted_result,
          samples, sorted_indices, configurations, probabilities

fields == <<G, required_counts, linkers, lengths, E>>
vars == <<G, required_counts, linkers, lengths, E,
          method, raised, nvars, op, result_x, interpreted_result,
          samples, sorted_indices, configurations, probabilities>>

(* ------------------------------ bounds -------------------------------- *)
MaxSites == 2
MaxTypes == 2
MaxEdges == 1
MaxSamples == 3

(* ------------------------- program constants -------------------------- *)
CompositionWeight == 200
OccupancyWeight == 300
DefaultE == 1

(* --------------------------- input domains ---------------------------- *)
TypeNames == {"A", "B", "C"}
Lengths == {1, 2}
Weights == {1, 2}
Probabilities == {0, 1, 2}
ExampleLengths == [t \in TypeNames |-> IF t = "A" THEN 1 ELSE IF t = "B" THEN 2 ELSE 3]

Range(s) == {s[k] : k \in DOMAIN s}
Min(a, b) == IF a < b THEN a ELSE b
Restrict(f, K) == [k \in K |-> f[k]]

RECURSIVE SumSeq(_)
SumSeq(s) == IF s = <<>> THEN 0 ELSE s[1] + SumSeq(Tail(s))

RECURSIVE Concat(_)
Concat(ss) == IF ss = <<>> THEN <<>> ELSE ss[1] \o Concat(Tail(ss))

SeqsUpTo(S, lo, hi) == UNION {[1..k -> S] : k \in lo..hi}

(* A catalogue is an ordered list of distinct linker types. *)
Catalogues ==
    {c \in SeqsUpTo(TypeNames, 1, MaxTypes) :
        \A a, b \in DOMAIN c : a # b => c[a] # c[b]}

(* G.edges(data=True) of an undirected graph on nodes 0..n-1: every edge  *)
(* once, as (i, j, {"weight": w}) with i < j, in iteration order.         *)
EdgeTriples(n) ==
    {e \in [i : 0..(n - 1), j : 0..(n - 1), weight : Weights] : e.i < e.j}

EdgeLists(n) ==
    {es \in SeqsUpTo(EdgeTriples(n), 0, MaxEdges) :
        \A a, b \in DOMAIN es :
            a # b => <<es[a].i, es[a].j>> # <<es[b].i, es[b].j>>}

Graphs == UNION {{[nodes |-> n, edges |-> es] : es \in EdgeLists(n)} : n \in 0..MaxSites}

number_of_nodes == G.nodes
num_linkers == Len(linkers)

(* ------------------------ to_quadratic_program ------------------------ *)
DigitChars == <<"0", "1", "2", "3", "4", "5", "6", "7", "8", "9">>

(* str(i) of a non-negative int *)
RECURSIVE StrInt(_)
StrInt(i) ==
    IF i < 10 THEN <<DigitChars[i + 1]>>
    ELSE StrInt(i \div 10) \o <<DigitChars[(i % 10) + 1]>>

(* A linker type is a one-character str. *)
Chars(t) == <<t>>

(* f'q_{i}_{t}' *)
VarName(i, t) == <<"q", "_">> \o StrInt(i) \o <<"_">> \o Chars(t)

(* The names handed to mdl.binary_var, in creation order:                 *)
(* for i in range(number_of_nodes) for t in self.linkers.                 *)
(* Variable creation with the loops exchanged:                            *)
(* for t in self.linkers for i in range(number_of_nodes).                 *)
VarsTypeMajor(i) ==
    [k \in 1..((number_of_nodes - i) * num_linkers) |->
        VarName(i + ((k - 1) % (number_of_nodes - i)),
                linkers[((k - 1) \div (number_of_nodes - i)) + 1])]

RECURSIVE VarsFrom(_)
VarsFrom(i) ==
    IF i >= number_of_nodes THEN <<>>
    ELSE [j \in 1..num_linkers |-> VarName(i, linkers[j])] \o VarsFrom(i + 1)

binary_vars == VarsFrom(0)

(* The dict q of line 51: each key with the variable it holds, as that    *)
(* variable's 1-based position among the model's variables (a later       *)
(* duplicate key replaces the value).                                     *)
q_dict ==
    [name \in Range(binary_vars) |->
        CHOOSE k \in DOMAIN binary_vars :
            /\ binary_vars[k] = name
            /\ \A m \in DOMAIN binary_vars : binary_vars[m] = name => m <= k]

(* The binary assignments of the variables of the program. *)
Assignments == [1..Len(binary_vars) -> {0, 1}]

(* The value of q[f'q_{i}_{t}'] under assignment x *)
Q(q, x, i, t) == x[q[VarName(i, t)]]

Sq(a) == a * a

(* A composition term on the total number of assignments only. *)
ratio_cost_total(q, x) ==
    CompositionWeight *
        Sq(SumSeq([k \in 1..num_linkers |->
               SumSeq([s \in 1..number_of_nodes |-> Q(q, x, s - 1, linkers[k])])])
           - SumSeq([k \in 1..num_linkers |-> required_counts[linkers[k]]]))

(* line 53 *)
ratio_cost(q, x) ==
    CompositionWeight * SumSeq([k \in 1..num_linkers |->
        Sq(SumSeq([s \in 1..number_of_nodes |-> Q(q, x, s - 1, linkers[k])])
           - required_counts[linkers[k]])])

(* The edge value as the single sum over the types of each end. *)
edge_value_single(q, e, x) ==
    SumSeq([k \in 1..num_linkers |-> lengths[linkers[k]] * Q(q, x, e.i, linkers[k])])
    + SumSeq([k \in 1..num_linkers |-> lengths[linkers[k]] * Q(q, x, e.j, linkers[k])])

(* lines 59-62: the sum runs over the cross product of the catalogue *)
edge_value(q, e, x) ==
    SumSeq([k1 \in 1..num_linkers |->
        SumSeq([k2 \in 1..num_linkers |->
            lengths[linkers[k1]] * Q(q, x, e.i, linkers[k1])
            + lengths[linkers[k2]] * Q(q, x, e.j, linkers[k2])])])

(* line 64, as the fraction num/den *)
mean_edge_value(q, x) ==
    [num |-> SumSeq([k \in 1..Len(G.edges) |-> edge_value(q, G.edges[k], x)]),
     den |-> Len(G.edges)]

(* lines 66-71, as a fraction: sum of w * (v - num/den)^2 *)
balance_cost(q, x) ==
    LET m == mean_edge_value(q, x) IN
    [num |-> SumSeq([k \in 1..Len(G.edges) |->
                G.edges[k].weight * Sq(edge_value(q, G.edges[k], x) * m.den - m.num)]),
     den |-> Sq(m.den)]

(* An occupancy term that penalises only a second assignment, c*(c-1). *)
occupancy_cost_at_most_one(q, x) ==
    OccupancyWeight * SumSeq([s \in 1..number_of_nodes |->
        LET c == SumSeq([k \in 1..num_linkers |-> Q(q, x, s - 1, linkers[k])])
        IN  c * (c - 1)])

(* line 73 *)
occupancy_cost(q, x) ==
    OccupancyWeight * SumSeq([s \in 1..number_of_nodes |->
        Sq(SumSeq([k \in 1..num_linkers |-> Q(q, x, s - 1, linkers[k])]) - 1)])

(* line 75, as a fraction *)
total_cost(q, x) ==
    LET b == balance_cost(q, x) IN
    [num |-> (ratio_cost(q, x) + occupancy_cost(q, x)) * b.den + E * b.num,
     den |-> b.den]

(* The returned program: its variables in order, the dict q its objective *)
(* was built through, and its direction; NoOp when nothing was returned.  *)
NoOp == [variables |-> <<>>, q |-> <<>>, sense |-> "none"]

(* What ends the call, in statement order: self.required_counts[t] at     *)
(* line 53, self.lengths[t] at line 60 (reached only inside the edge      *)
(* loop), the division by len(self.G.edges) at line 64.                   *)
RatioKeyError == \E k \in DOMAIN linkers : linkers[k] \notin DOMAIN required_counts
LengthKeyError ==
    /\ G.edges # <<>>
    /\ \E k \in DOMAIN linkers : linkers[k] \notin DOMAIN lengths
ZeroEdges == Len(G.edges) = 0

(* docplex refuses a zero denominator; which exception class that is      *)
(* depends on the expression class and the library version.               *)
ZeroDivideErrors == {"DOcplexException", "ZeroDivisionError"}

FormulationErrors ==
    IF RatioKeyError THEN {"KeyError"}
    ELSE IF LengthKeyError THEN {"KeyError"}
    ELSE IF ZeroEdges THEN ZeroDivideErrors
    ELSE {"none"}

ClearDecode ==
    /\ result_x' = <<>>
    /\ interpreted_result' = <<>>

ClearPlot ==
    /\ samples' = <<>>
    /\ sorted_indices' = <<>>
    /\ configurations' = <<>>
    /\ probabilities' = <<>>

(* The caller's script: construct, formulate at most once, then decode    *)
(* one result or plot one ensemble; an exception ends the script.         *)
CanFormulate == method = "__init__"
CanDecode == method \in {"__init__", "to_quadratic_program"} /\ raised = "none"

to_quadratic_program ==
    /\ CanFormulate
    /\ method' = "to_quadratic_program"
    /\ nvars' = Len(binary_vars)
    /\ raised' \in FormulationErrors
    /\ op' = IF raised' = "none"
             THEN [variables |-> binary_vars, q |-> q_dict, sense |-> "minimize"]
             ELSE NoOp
    /\ ClearDecode
    /\ ClearPlot
    /\ UNCHANGED fields

(* ------------------------------ interpret ----------------------------- *)
(* str(b) of one element of result.x.astype(int), a 0/1 value *)
StrBit(b) == IF b = 0 THEN <<"0">> ELSE IF b = 1 THEN <<"1">> ELSE StrInt(b)

(* ''.join(map(str, result.x.astype(int))), line 98 *)
Bitstring(x) == Concat([k \in DOMAIN x |-> StrBit(x[k])])

(* s[start:end] with 0-based bounds, clipped to the string as Python does *)
Slice(s, start, end) ==
    LET lo == Min(start, Len(s))
        hi == Min(end, Len(s))
    IN  IF hi <= lo THEN <<>> ELSE [k \in 1..(hi - lo) |-> s[lo + k]]

(* [self.linkers[j] for j, bit in enumerate(site_encoding) if bit == '1'] *)
RECURSIVE AssignedFrom(_, _)
AssignedFrom(site_encoding, j) ==
    IF j > Len(site_encoding) THEN <<>>
    ELSE (IF site_encoding[j] = "1" THEN <<linkers[j]>> ELSE <<>>)
         \o AssignedFrom(site_encoding, j + 1)

assigned_linkers(site_encoding) == AssignedFrom(site_encoding, 1)

(* sep.join(parts) for a list of strs *)
RECURSIVE Join(_, _)
Join(sep, parts) ==
    IF parts = <<>> THEN <<>>
    ELSE IF Len(parts) = 1 THEN parts[1]
    ELSE parts[1] \o sep \o Join(sep, Tail(parts))

(* A decoder that reports one linker per site: the first assigned one. *)
SiteLabelFirstOnly(bitstring, i) ==
    LET start_idx == i * num_linkers
        end_idx == start_idx + num_linkers
        site_encoding == Slice(bitstring, start_idx, end_idx)
        assigned == assigned_linkers(site_encoding)
    IN  IF assigned # <<>> THEN Chars(assigned[1]) ELSE <<"-">>

(* lines 101-106 for site i (0-based) *)
SiteLabel(bitstring, i) ==
    LET start_idx == i * num_linkers
        end_idx == start_idx + num_linkers
        site_encoding == Slice(bitstring, start_idx, end_idx)
        assigned == assigned_linkers(site_encoding)
    IN  IF assigned # <<>>
        THEN Join(<<",">>, [k \in DOMAIN assigned |-> Chars(assigned[k])])
        ELSE <<"-">>

(* MTVcost.interpret: the list it returns for result.x = x *)
Interpreted(x) ==
    LET bitstring == Bitstring(x)
    IN  [s \in 1..number_of_nodes |-> SiteLabel(bitstring, s - 1)]

(* Solver output handed to interpret: binary vectors of the program's     *)
(* length and of every other length up to one more.                       *)
RawVectors == SeqsUpTo({0, 1}, 0, number_of_nodes * num_linkers + 1)

interpret ==
    /\ CanDecode
    /\ \E x \in RawVectors :
        /\ method' = "interpret"
        /\ result_x' = x
        /\ interpreted_result' = Interpreted(x)
        /\ raised' = "none"
        /\ ClearPlot
        /\ UNCHANGED <<nvars, op>>
        /\ UNCHANGED fields

(* -------------------------- plot_distribution ------------------------- *)
(* str(interpreted): the repr of a list of strs without quotes or escapes *)
StrList(labels) ==
    <<"[">> \o Join(<<",", " ">>, [k \in DOMAIN labels |-> <<"'">> \o labels[k] \o <<"'">>])
    \o <<"]">>

(* sorted(range(len(p)), key=lambda k: p[k], reverse=True): index k goes  *)
(* behind every index already placed whose key is not smaller, so equal   *)
(* keys keep their input order.                                           *)
(* A descending sort that puts an index ahead of the equal keys already   *)
(* placed, as sorting ascending and reversing the result does.            *)
InsertDescUnstable(out, k, p) ==
    LET ahead == {m \in DOMAIN out : p[out[m]] > p[k]}
        pos == Cardinality(ahead)
    IN  SubSeq(out, 1, pos) \o <<k>> \o SubSeq(out, pos + 1, Len(out))

InsertDesc(out, k, p) ==
    LET ahead == {m \in DOMAIN out : p[out[m]] >= p[k]}
        pos == Cardinality(ahead)
    IN  SubSeq(out, 1, pos) \o <<k>> \o SubSeq(out, pos + 1, Len(out))

RECURSIVE SortFrom(_, _, _)
SortFrom(out, k, p) ==
    IF k > Len(p) THEN out ELSE SortFrom(InsertDesc(out, k, p), k + 1, p)

(* A ranking that leaves out the entries of probability zero. *)
SortedIndicesNonzero(p) ==
    LET all == SortFrom(<<>>, 1, p)
        keep(k) == p[k] > 0
    IN  SelectSeq(all, keep)

SortedIndices(p) == SortFrom(<<>>, 1, p)

(* Ensemble members: the all-zero vector of the program's length, the     *)
(* vector with only its first bit set, and the all-zero vector followed   *)
(* by one extra set bit.                                                  *)
SampleVectors ==
    LET len == number_of_nodes * num_linkers IN
    {[k \in 1..len |-> IF k = b THEN 1 ELSE 0] : b \in 0..Min(len, 1)}
    \cup {[k \in 1..(len + 1) |-> IF k = len + 1 THEN 1 ELSE 0]}

Ensembles == SeqsUpTo([x : SampleVectors, probability : Probabilities], 0, MaxSamples)

plot_distribution ==
    /\ CanDecode
    /\ \E ens \in Ensembles :
        LET confs == [k \in DOMAIN ens |-> StrList(Interpreted(ens[k].x))]
            probs == [k \in DOMAIN ens |-> ens[k].probability]
            idx == SortedIndices(probs)
        IN  /\ method' = "plot_distribution"
            /\ samples' = ens
            /\ sorted_indices' = idx
            /\ configurations' = [k \in DOMAIN idx |-> confs[idx[k]]]
            /\ probabilities' = [k \in DOMAIN idx |-> probs[idx[k]]]
            /\ raised' = "none"
            /\ ClearDecode
            /\ UNCHANGED <<nvars, op>>
            /\ UNCHANGED fields

(* --------------------------- specifications --------------------------- *)
Constructed ==
    /\ E = DefaultE
    /\ method = "__init__"
    /\ raised = "none"
    /\ nvars = 0
    /\ op = NoOp
    /\ result_x = <<>>
    /\ interpreted_result = <<>>
    /\ samples = <<>>
    /\ sorted_indices = <<>>
    /\ configurations = <<>>
    /\ probabilities = <<>>

(* The one edge (0, 1) of the example, when the graph has those nodes. *)
ExampleEdges(n) ==
    IF n >= 2 THEN <<[i |-> 0, j |-> 1, weight |-> 1]>> ELSE <<>>

Ones(K) == [t \in K |-> 1]
Keys == Range(linkers)

(* MTVcost(G, required_counts, linkers, lengths) on the example of the    *)
(* documentation, varied one argument family at a time.                   *)
(* The mappings with any key sets, on any graph. *)
InitKeys ==
    /\ G \in Graphs
    /\ linkers \in Catalogues
    /\ required_counts \in {Ones(K) : K \in SUBSET TypeNames}
    /\ lengths \in {Restrict(ExampleLengths, K) : K \in SUBSET TypeNames}

(* Any required counts for the catalogue's types. *)
InitCounts ==
    /\ G \in {[nodes |-> n, edges |-> ExampleEdges(n)] : n \in 0..MaxSites}
    /\ linkers \in Catalogues
    /\ required_counts \in [Keys -> 0..MaxSites]
    /\ lengths = Restrict(ExampleLengths, Keys)

(* Any lengths for the catalogue's types, on any graph. *)
InitLengths ==
    /\ G \in Graphs
    /\ linkers \in Catalogues
    /\ required_counts = Ones(Keys)
    /\ lengths \in [Keys -> Lengths]

Init ==
    /\ InitKeys \/ InitCounts \/ InitLengths
    /\ Constructed

Next == to_quadratic_program

Spec == Init /\ [][Next]_vars

(* Decoding: the object of the example parameters on every graph size and *)
(* catalogue.                                                             *)
InitDecode ==
    /\ G \in {[nodes |-> n, edges |-> ExampleEdges(n)] : n \in 0..MaxSites}
    /\ linkers \in Catalogues
    /\ required_counts = Ones(Keys)
    /\ lengths = Restrict(ExampleLengths, Keys)
    /\ Constructed

NextDecode == to_quadratic_program \/ interpret \/ plot_distribution

SpecDecode == InitDecode /\ [][NextDecode]_vars

(* ============================== claims ================================ *)
ProgramLength == number_of_nodes * num_linkers

(* The catalogue positions whose bit is set in site i's block (i 0-based) *)
SetPositions(x, i) == {j \in 1..num_linkers : x[i * num_linkers + j] = 1}

(* The m-th smallest element of a set of integers *)
NthSmallest(S, m) == CHOOSE j \in S : Cardinality({k \in S : k < j}) = m - 1

IsLabelOf(lab, S) ==
    IF S = {} THEN lab = <<"-">>
    ELSE /\ Len(lab) = 2 * Cardinality(S) - 1
         /\ \A m \in 1..Cardinality(S) : lab[2 * m - 1] = linkers[NthSmallest(S, m)]
         /\ \A m \in 1..(Cardinality(S) - 1) : lab[2 * m] = ","

(* C1: for a binary vector of length siteCount * |types|, interpret       *)
(* returns exactly siteCount labels; label i is the comma-joined list, in *)
(* catalogue order, of exactly the types whose bit is set in site i's     *)
(* block, and "-" when none is; zero or several bits are reported as is.  *)
C1_InterpretPositional ==
    (method = "interpret" /\ Len(result_x) = ProgramLength) =>
        /\ raised = "none"
        /\ Len(interpreted_result) = number_of_nodes
        /\ \A i \in 0..(number_of_nodes - 1) :
               IsLabelOf(interpreted_result[i + 1], SetPositions(result_x, i))

C1_Witness ==
    /\ method = "interpret"
    /\ Len(result_x) = ProgramLength
    /\ number_of_nodes >= 2
    /\ SetPositions(result_x, 0) = {}
    /\ Cardinality(SetPositions(result_x, 1)) >= 2

(* The types a label names: its parts between commas, "-" naming none *)
LabelTypes(lab) == Range(lab) \ {",", "-"}

(* C2: for a catalogue of distinct types the variable created for         *)
(* (site i, types[j]) is the one at flattened position i*|types| + j, so  *)
(* a vector written in the Formulator's variable order decodes to exactly *)
(* the per-site sets of types that were encoded.                          *)
C2_SharedVariableOrder ==
    (method = "interpret" /\ op # NoOp /\ Len(result_x) = Len(op.variables)) =>
        /\ Len(op.variables) = ProgramLength
        /\ Len(interpreted_result) = number_of_nodes
        /\ \A i \in 0..(number_of_nodes - 1) : \A j \in 1..num_linkers :
               \E p \in DOMAIN op.variables :
                  /\ op.variables[p] = VarName(i, linkers[j])
                  /\ p = i * num_linkers + (j - 1) + 1
                  /\ (result_x[p] = 1) <=>
                        (linkers[j] \in LabelTypes(interpreted_result[i + 1]))

C2_Witness ==
    /\ method = "interpret"
    /\ op # NoOp
    /\ Len(result_x) = Len(op.variables)
    /\ number_of_nodes >= 2
    /\ num_linkers >= 2
    /\ LabelTypes(interpreted_result[1]) = {linkers[2]}
    /\ LabelTypes(interpreted_result[2]) = {linkers[1]}

(* The (decoded assignment, probability) pair of ensemble entry k *)
InputPair(k) ==
    <<StrList(Interpreted(samples[k].x)), samples[k].probability>>

OutputPair(a) == <<configurations[a], probabilities[a]>>

Ranked ==
    /\ method = "plot_distribution"
    /\ Len(configurations) = Len(sorted_indices)
    /\ Len(probabilities) = Len(sorted_indices)
    /\ \A a \in DOMAIN sorted_indices :
           /\ sorted_indices[a] \in DOMAIN samples
           /\ OutputPair(a) = InputPair(sorted_indices[a])

(* C3: ranking returns the entries sorted by probability descending, and  *)
(* of two entries of equal probability the one that comes first in the    *)
(* input comes first in the output.                                       *)
C3_RankStableDescending ==
    method = "plot_distribution" =>
        /\ Ranked
        /\ \A a, b \in DOMAIN sorted_indices :
               a < b =>
                 /\ probabilities[a] >= probabilities[b]
                 /\ probabilities[a] = probabilities[b] =>
                        sorted_indices[a] < sorted_indices[b]

C3_Witness ==
    /\ Ranked
    /\ \E a, b \in DOMAIN sorted_indices :
           /\ a < b
           /\ probabilities[a] = probabilities[b]
           /\ configurations[a] # configurations[b]
    /\ \E a, b \in DOMAIN sorted_indices :
           a < b /\ sorted_indices[a] > sorted_indices[b]

(* C4: ranking neither filters, merges nor normalises: the output has as  *)
(* many entries as the input and is a permutation of the input's (decoded *)
(* assignment, probability) pairs; entries that decode to the same        *)
(* assignment stay separate entries.                                      *)
C4_RankIsPermutation ==
    method = "plot_distribution" =>
        /\ Ranked
        /\ Len(sorted_indices) = Len(samples)
        /\ \A k \in DOMAIN samples :
               Cardinality({a \in DOMAIN sorted_indices : sorted_indices[a] = k}) = 1

C4_Witness ==
    /\ Ranked
    /\ Len(configurations) = Len(samples)
    /\ \E k, m \in DOMAIN samples :
           /\ k # m
           /\ samples[k].x # samples[m].x
           /\ InputPair(k) = InputPair(m)
    /\ \E k \in DOMAIN samples : samples[k].probability = 0

(* ---- formulation ---- *)
Formulated == method = "to_quadratic_program" /\ raised = "none"

(* q[i, types[j]] under assignment x, by flattened position (i 0-based) *)
QBit(x, i, j) == x[i * num_linkers + j]

(* The number of sites assigned types[j], and of types assigned to site i *)
SitesWith(x, j) == Cardinality({i \in 0..(number_of_nodes - 1) : QBit(x, i, j) = 1})
TypesAt(x, i) == Cardinality({j \in 1..num_linkers : QBit(x, i, j) = 1})

(* C5: formulating for a graph with zero edges fails with                 *)
(* ConfigurationError; the mean is never computed by dividing by zero.    *)
C5_ZeroEdgesConfigurationError ==
    (method = "to_quadratic_program" /\ Len(G.edges) = 0) =>
        raised = "ConfigurationError"

KeyMismatch ==
    \/ DOMAIN required_counts # Range(linkers)
    \/ DOMAIN lengths # Range(linkers)

(* C7: when a catalogue type has no entry in required_counts or lengths,  *)
(* or one of those mappings names a type absent from the catalogue,       *)
(* formulation fails with ConfigurationError before any decision variable *)
(* has been created.                                                      *)
C7_KeyMismatchConfigurationError ==
    (method = "to_quadratic_program" /\ KeyMismatch) =>
        /\ raised = "ConfigurationError"
        /\ nvars = 0

(* C8: for every binary assignment the composition term is 0 exactly when *)
(* every type's number of assigned sites equals its required count, and   *)
(* is strictly positive otherwise.                                        *)
C8_CompositionZeroIffCounts ==
    Formulated =>
        LET q == op.q IN
        \A x \in Assignments :
            LET met == \A j \in 1..num_linkers :
                          SitesWith(x, j) = required_counts[linkers[j]]
            IN  /\ met => ratio_cost(q, x) = 0
                /\ ~met => ratio_cost(q, x) > 0

C8_Witness ==
    /\ Formulated
    /\ number_of_nodes >= 2
    /\ num_linkers >= 2
    /\ \E x \in Assignments :
           /\ ratio_cost(op.q, x) = 0
           /\ \E j \in 1..num_linkers : SitesWith(x, j) >= 1
    /\ \E x \in Assignments : ratio_cost(op.q, x) > 0

(* C9: for every binary assignment the occupancy term is 0 exactly when   *)
(* every site has exactly one assigned type, and is strictly positive     *)
(* when some site has none or more than one.                              *)
C9_OccupancyZeroIffOnePerSite ==
    Formulated =>
        LET q == op.q IN
        \A x \in Assignments :
            LET one == \A i \in 0..(number_of_nodes - 1) : TypesAt(x, i) = 1
            IN  /\ one => occupancy_cost(q, x) = 0
                /\ ~one => occupancy_cost(q, x) > 0

C9_Witness ==
    /\ Formulated
    /\ number_of_nodes >= 2
    /\ num_linkers >= 2
    /\ \E x \in Assignments : occupancy_cost(op.q, x) = 0
    /\ \E x \in Assignments :
           /\ occupancy_cost(op.q, x) > 0
           /\ TypesAt(x, 0) = 0
    /\ \E x \in Assignments :
           /\ occupancy_cost(op.q, x) > 0
           /\ TypesAt(x, 1) >= 2

(* The length assigned to site i: the sum over types of length * q *)
AssignedLength(x, i) ==
    SumSeq([j \in 1..num_linkers |-> lengths[linkers[j]] * QBit(x, i, j)])

(* C10: for every edge (i, j) and binary assignment the edge value of the *)
(* balance term, summed over all |types|^2 ordered pairs, is |types|      *)
(* times the lengths assigned to i plus those assigned to j.              *)
C10_EdgeValueCrossProduct ==
    Formulated =>
        LET q == op.q IN
        \A k \in DOMAIN G.edges : \A x \in Assignments :
            edge_value(q, G.edges[k], x) =
                num_linkers * (AssignedLength(x, G.edges[k].i)
                               + AssignedLength(x, G.edges[k].j))

C10_Witness ==
    /\ Formulated
    /\ num_linkers >= 2
    /\ \E k \in DOMAIN G.edges : \E x \in Assignments :
           /\ TypesAt(x, G.edges[k].i) = 1
           /\ TypesAt(x, G.edges[k].j) = 1
           /\ edge_value(op.q, G.edges[k], x) #
                 AssignedLength(x, G.edges[k].i) + AssignedLength(x, G.edges[k].j)

(* C6: interpret fails with DecodingError whenever the raw vector's       *)
(* length differs from siteCount * |orderedTypes|, and returns no label   *)
(* list for such a vector.                                                *)
C6_LengthMismatchRaises ==
    (method = "interpret" /\ Len(result_x) # ProgramLength) =>
        /\ raised = "DecodingError"
        /\ interpreted_result = <<>>
====
